---- MODULE Spec2Model ----
(***************************************************************************)
(* A model of the time-to-review GitHub Action (src/time-to-review.js).    *)
(*                                                                         *)
(* Two parts are modelled.  The classifier (calculateReviewTime,           *)
(* isDocOrMetadataFile, getReviewLabel, getLabelColor) is a set of pure    *)
(* operators.  The label synchronisation (run, removeExistingTimeLabels,   *)
(* ensureLabelExists) is a state machine over the labels of one pull       *)
(* request and the label definitions of its repository; one step of it is  *)
(* what the script does between two awaits: it takes the answer of the     *)
(* call it is waiting for and runs up to the next call it issues.          *)
(*                                                                         *)
(* Strings: TLC cannot index a string, so the text the script inspects     *)
(* character by character (file names, commit messages, label names, the   *)
(* literals of its regular expressions) is looked up in CharsOf, which     *)
(* spells every string of the model as its sequence of characters.         *)
(*                                                                         *)
(* Numbers: the score is a sum of multiples of 0.002 minutes.  It is kept  *)
(* as an integer number of thousandths of a minute, and changed lines as   *)
(* an integer number of fifths of a line (a doc line counts 0.2 lines).    *)
(* The script computes in IEEE doubles; its rounding error is far below    *)
(* one thousandth and can only matter within that distance of a half.      *)
(***************************************************************************)
EXTENDS Integers, Sequences, FiniteSets, TLC

VARIABLES
  pullRequest,  \* classifier input: the pull request, [body |-> NoBody or Body(n)]
  commits,      \* classifier input: the commits, each [message, stats]
  files,        \* classifier input: the changed files, each [filename, additions, deletions]
  estimate,     \* classifier output: NoEstimate, then [minutes, label, color]
  snapshot,     \* per run: what pulls.get, listCommits and listFiles answered
  reviewTime,   \* per run, line 38: the minutes calculateReviewTime returned
  reviewLabel,  \* per run, line 39: the label name getReviewLabel returned
  labelColor,   \* per run, line 40: the color getLabelColor returned
  labels,       \* collaborator: the label names on the pull request
  labels0,      \* the label names on the pull request before any run
  labelDefs,    \* collaborator: label name -> color, the repository's label definitions
  pc,           \* per run: where the run is
  inflight,     \* per run: the collaborator calls issued and not yet answered
  toRemove,     \* per run: timeLabels not yet handed to removeLabel (the for loop's rest)
  calls,        \* per run: every collaborator call issued, in order
  errors,       \* per run: every failed call: [call, status, at |-> Len(calls) then]
  failed,       \* per run: core.setFailed was called
  after,        \* per run: the labels on the pull request when the run ended
  created       \* per run: the label names the run created a definition for

vars == <<pullRequest, commits, files, estimate, snapshot, reviewTime, reviewLabel,
          labelColor,
          labels, labels0, labelDefs, pc, inflight, toRemove, calls, errors,
          failed, after, created>>

\* A value the script finds absent (null or undefined) has present = FALSE.
NoBody == [present |-> FALSE, length |-> 0]
Body(n) == [present |-> TRUE, length |-> n]
NoStats == [present |-> FALSE, additions |-> 0, deletions |-> 0]
Stats(additions, deletions) ==
  [present |-> TRUE, additions |-> additions, deletions |-> deletions]

-----------------------------------------------------------------------------
(* Bounds of the model.                                                    *)

\* The longest list of changed files the classifier is given.
MaxFiles == 2
\* The longest list of arbitrary commits the classifier is given.
MaxCommits == 1
\* The most copies of one commit in a list of equal commits.
MaxRepeat == 5
\* The most labels on the pull request before the first run.
MaxInitLabels == 3
\* The most labels on the pull request before two overlapping runs.
MaxConcLabels == 1

-----------------------------------------------------------------------------
(* Strings as character sequences.                                         *)

CharsOf ==
  ("docs/a.md" :> <<"d", "o", "c", "s", "/", "a", ".", "m", "d">>) @@
  ("README" :> <<"R", "E", "A", "D", "M", "E">>) @@
  ("CHANGELOG.md" :> <<"C", "H", "A", "N", "G", "E", "L", "O", "G", ".", "m", "d">>) @@
  (".github/workflows/ci.yml" :> <<".", "g", "i", "t", "h", "u", "b", "/", "w", "o", "r", "k", "f", "l", "o", "w", "s", "/", "c", "i", ".", "y", "m", "l">>) @@
  ("src/app.ts" :> <<"s", "r", "c", "/", "a", "p", "p", ".", "t", "s">>) @@
  ("util.py" :> <<"u", "t", "i", "l", ".", "p", "y">>) @@
  ("data.csv" :> <<"d", "a", "t", "a", ".", "c", "s", "v">>) @@
  ("Docs/Main.JAVA" :> <<"D", "o", "c", "s", "/", "M", "a", "i", "n", ".", "J", "A", "V", "A">>) @@
  ("Makefile" :> <<"M", "a", "k", "e", "f", "i", "l", "e">>) @@
  ("feat(core): add x" :> <<"f", "e", "a", "t", "(", "c", "o", "r", "e", ")", ":", " ", "a", "d", "d", " ", "x">>) @@
  ("fix: y" :> <<"f", "i", "x", ":", " ", "y">>) @@
  ("refactor: z" :> <<"r", "e", "f", "a", "c", "t", "o", "r", ":", " ", "z">>) @@
  ("revert: w" :> <<"r", "e", "v", "e", "r", "t", ":", " ", "w">>) @@
  ("docs: d" :> <<"d", "o", "c", "s", ":", " ", "d">>) @@
  ("chore: x" :> <<"c", "h", "o", "r", "e", ":", " ", "x">>) @@
  ("test(api): y" :> <<"t", "e", "s", "t", "(", "a", "p", "i", ")", ":", " ", "y">>) @@
  ("update stuff" :> <<"u", "p", "d", "a", "t", "e", " ", "s", "t", "u", "f", "f">>) @@
  ("feat:no space" :> <<"f", "e", "a", "t", ":", "n", "o", " ", "s", "p", "a", "c", "e">>) @@
  ("Fix: caps" :> <<"F", "i", "x", ":", " ", "c", "a", "p", "s">>) @@
  ("fix(a b): c" :> <<"f", "i", "x", "(", "a", " ", "b", ")", ":", " ", "c">>) @@
  ("docs: ok\n\nfeat: body" :> <<"d", "o", "c", "s", ":", " ", "o", "k", "\n", "\n", "f", "e", "a", "t", ":", " ", "b", "o", "d", "y">>) @@
  ("perf(my-mod_2): fast" :> <<"p", "e", "r", "f", "(", "m", "y", "-", "m", "o", "d", "_", "2", ")", ":", " ", "f", "a", "s", "t">>) @@
  ("feat: " :> <<"f", "e", "a", "t", ":", " ">>) @@
  ("wip: x" :> <<"w", "i", "p", ":", " ", "x">>) @@
  ("1 min review" :> <<"1", " ", "m", "i", "n", " ", "r", "e", "v", "i", "e", "w">>) @@
  ("5 min review" :> <<"5", " ", "m", "i", "n", " ", "r", "e", "v", "i", "e", "w">>) @@
  ("10 min review" :> <<"1", "0", " ", "m", "i", "n", " ", "r", "e", "v", "i", "e", "w">>) @@
  ("15 min review" :> <<"1", "5", " ", "m", "i", "n", " ", "r", "e", "v", "i", "e", "w">>) @@
  ("20 min review" :> <<"2", "0", " ", "m", "i", "n", " ", "r", "e", "v", "i", "e", "w">>) @@
  ("30 min review" :> <<"3", "0", " ", "m", "i", "n", " ", "r", "e", "v", "i", "e", "w">>) @@
  ("45 min review" :> <<"4", "5", " ", "m", "i", "n", " ", "r", "e", "v", "i", "e", "w">>) @@
  ("007 min review" :> <<"0", "0", "7", " ", "m", "i", "n", " ", "r", "e", "v", "i", "e", "w">>) @@
  ("bug" :> <<"b", "u", "g">>) @@
  ("x5 min review" :> <<"x", "5", " ", "m", "i", "n", " ", "r", "e", "v", "i", "e", "w">>) @@
  ("5 min review\n" :> <<"5", " ", "m", "i", "n", " ", "r", "e", "v", "i", "e", "w", "\n">>) @@
  ("5 Min Review" :> <<"5", " ", "M", "i", "n", " ", "R", "e", "v", "i", "e", "w">>) @@
  (" min review" :> <<" ", "m", "i", "n", " ", "r", "e", "v", "i", "e", "w">>) @@
  ("md" :> <<"m", "d">>) @@
  ("txt" :> <<"t", "x", "t">>) @@
  ("rst" :> <<"r", "s", "t">>) @@
  ("adoc" :> <<"a", "d", "o", "c">>) @@
  ("readme" :> <<"r", "e", "a", "d", "m", "e">>) @@
  ("changelog" :> <<"c", "h", "a", "n", "g", "e", "l", "o", "g">>) @@
  ("license" :> <<"l", "i", "c", "e", "n", "s", "e">>) @@
  ("contributing" :> <<"c", "o", "n", "t", "r", "i", "b", "u", "t", "i", "n", "g">>) @@
  ("authors" :> <<"a", "u", "t", "h", "o", "r", "s">>) @@
  (".gitignore" :> <<".", "g", "i", "t", "i", "g", "n", "o", "r", "e">>) @@
  (".editorconfig" :> <<".", "e", "d", "i", "t", "o", "r", "c", "o", "n", "f", "i", "g">>) @@
  (".prettierrc" :> <<".", "p", "r", "e", "t", "t", "i", "e", "r", "r", "c">>) @@
  (".eslintrc" :> <<".", "e", "s", "l", "i", "n", "t", "r", "c">>) @@
  ("package.json" :> <<"p", "a", "c", "k", "a", "g", "e", ".", "j", "s", "o", "n">>) @@
  ("package-lock.json" :> <<"p", "a", "c", "k", "a", "g", "e", "-", "l", "o", "c", "k", ".", "j", "s", "o", "n">>) @@
  ("yarn.lock" :> <<"y", "a", "r", "n", ".", "l", "o", "c", "k">>) @@
  ("tsconfig.json" :> <<"t", "s", "c", "o", "n", "f", "i", "g", ".", "j", "s", "o", "n">>) @@
  ("tslint.json" :> <<"t", "s", "l", "i", "n", "t", ".", "j", "s", "o", "n">>) @@
  (".npmrc" :> <<".", "n", "p", "m", "r", "c">>) @@
  (".npmignore" :> <<".", "n", "p", "m", "i", "g", "n", "o", "r", "e">>) @@
  (".github" :> <<".", "g", "i", "t", "h", "u", "b">>) @@
  (".vscode" :> <<".", "v", "s", "c", "o", "d", "e">>) @@
  (".idea" :> <<".", "i", "d", "e", "a">>) @@
  ("docs/" :> <<"d", "o", "c", "s", "/">>) @@
  ("documentation/" :> <<"d", "o", "c", "u", "m", "e", "n", "t", "a", "t", "i", "o", "n", "/">>) @@
  ("wiki/" :> <<"w", "i", "k", "i", "/">>) @@
  ("js" :> <<"j", "s">>) @@
  ("jsx" :> <<"j", "s", "x">>) @@
  ("ts" :> <<"t", "s">>) @@
  ("tsx" :> <<"t", "s", "x">>) @@
  ("py" :> <<"p", "y">>) @@
  ("java" :> <<"j", "a", "v", "a">>) @@
  ("cpp" :> <<"c", "p", "p">>) @@
  ("c" :> <<"c">>) @@
  ("go" :> <<"g", "o">>) @@
  ("rs" :> <<"r", "s">>) @@
  ("feat" :> <<"f", "e", "a", "t">>) @@
  ("fix" :> <<"f", "i", "x">>) @@
  ("docs" :> <<"d", "o", "c", "s">>) @@
  ("style" :> <<"s", "t", "y", "l", "e">>) @@
  ("refactor" :> <<"r", "e", "f", "a", "c", "t", "o", "r">>) @@
  ("perf" :> <<"p", "e", "r", "f">>) @@
  ("test" :> <<"t", "e", "s", "t">>) @@
  ("build" :> <<"b", "u", "i", "l", "d">>) @@
  ("ci" :> <<"c", "i">>) @@
  ("chore" :> <<"c", "h", "o", "r", "e">>) @@
  ("revert" :> <<"r", "e", "v", "e", "r", "t">>) @@
  (": " :> <<":", " ">>)

Chars(s) == CharsOf[s]

\* String.prototype.toLowerCase on one character (the model's text is ASCII).
LowerChar(c) ==
  CASE c = "A" -> "a" [] c = "B" -> "b" [] c = "C" -> "c" [] c = "D" -> "d"
    [] c = "E" -> "e" [] c = "F" -> "f" [] c = "G" -> "g" [] c = "H" -> "h"
    [] c = "I" -> "i" [] c = "J" -> "j" [] c = "K" -> "k" [] c = "L" -> "l"
    [] c = "M" -> "m" [] c = "N" -> "n" [] c = "O" -> "o" [] c = "P" -> "p"
    [] c = "Q" -> "q" [] c = "R" -> "r" [] c = "S" -> "s" [] c = "T" -> "t"
    [] c = "U" -> "u" [] c = "V" -> "v" [] c = "W" -> "w" [] c = "X" -> "x"
    [] c = "Y" -> "y" [] c = "Z" -> "z" [] OTHER -> c

toLowerCase(cs) == [i \in 1..Len(cs) |-> LowerChar(cs[i])]

\* String.prototype.startsWith
startsWith(cs, p) ==
  Len(p) <= Len(cs) /\ \A i \in 1..Len(p) : cs[i] = p[i]

\* String.prototype.includes
includes(cs, p) ==
  \E k \in 0..(Len(cs) - Len(p)) : \A i \in 1..Len(p) : cs[k + i] = p[i]

\* cs.split(sep).pop(): what follows the last sep, all of cs when it has none.
LastIndexOf(cs, sep) ==
  IF \E i \in 1..Len(cs) : cs[i] = sep
  THEN CHOOSE i \in 1..Len(cs) :
         cs[i] = sep /\ \A j \in (i + 1)..Len(cs) : cs[j] # sep
  ELSE 0

splitPop(cs, sep) == SubSeq(cs, LastIndexOf(cs, sep) + 1, Len(cs))

\* cs.split(sep)[0]: what precedes the first sep, all of cs when it has none.
splitFirst(cs, sep) ==
  IF \E i \in 1..Len(cs) : cs[i] = sep
  THEN SubSeq(cs, 1, (CHOOSE i \in 1..Len(cs) :
                        cs[i] = sep /\ \A j \in 1..(i - 1) : cs[j] # sep) - 1)
  ELSE cs

Digits == {"0", "1", "2", "3", "4", "5", "6", "7", "8", "9"}

Letters ==
  {"a", "b", "c", "d", "e", "f", "g", "h", "i", "j", "k", "l", "m", "n", "o",
   "p", "q", "r", "s", "t", "u", "v", "w", "x", "y", "z"}

\* Array.prototype.includes over a list of string literals
inList(cs, list) == \E s \in list : cs = Chars(s)

Min(a, b) == IF a <= b THEN a ELSE b
Max(a, b) == IF a >= b THEN a ELSE b

\* Math.round of a non-negative number of thousandths: halves round up.
Round(milli) == (milli + 500) \div 1000

-----------------------------------------------------------------------------
(* The values the classifier's inputs are built from.                      *)

File(filename, additions, deletions) ==
  [filename |-> filename, additions |-> additions, deletions |-> deletions]

Commit(message, stats) == [message |-> message, stats |-> stats]

FileChoices ==
  { File("docs/a.md", 10, 0),
    File("README", 3, 1),
    File(".github/workflows/ci.yml", 0, 0),
    File("src/app.ts", 400, 0),
    File("util.py", 10, 0),
    File("data.csv", 1000, 200),
    File("Docs/Main.JAVA", 40, 10) }

CommitChoices ==
  { Commit("feat(core): add x", Stats(400, 0)),
    Commit("fix: y", NoStats),
    Commit("refactor: z", Stats(200, 101)),
    Commit("revert: w", NoStats),
    Commit("docs: d", Stats(300, 0)),
    Commit("docs: ok\n\nfeat: body", NoStats),
    Commit("chore: x", NoStats),
    Commit("test(api): y", NoStats),
    Commit("perf(my-mod_2): fast", Stats(1, 1)),
    Commit("update stuff", NoStats),
    Commit("feat:no space", NoStats),
    Commit("Fix: caps", Stats(301, 0)),
    Commit("fix(a b): c", NoStats),
    Commit("feat: ", NoStats),
    Commit("wip: x", NoStats) }

BodyChoices == {NoBody, Body(0), Body(49), Body(50)}

-----------------------------------------------------------------------------
(* The classifier.                                                         *)

\* isDocOrMetadataFile, line 181
DocExt(filename) == toLowerCase(splitPop(Chars(filename), "."))

isDocOrMetadataFile(filename) ==
  \/ inList(DocExt(filename), {"md", "txt", "rst", "adoc"})
  \/ \E p \in {"readme", "changelog", "license", "contributing", "authors"} :
       includes(toLowerCase(Chars(filename)), Chars(p))
  \/ \E meta \in {".gitignore", ".editorconfig", ".prettierrc", ".eslintrc",
                  "package.json", "package-lock.json", "yarn.lock",
                  "tsconfig.json", "tslint.json", ".npmrc", ".npmignore",
                  ".github", ".vscode", ".idea"} :
       includes(toLowerCase(Chars(filename)), toLowerCase(Chars(meta)))
  \/ startsWith(Chars(filename), Chars("docs/"))
  \/ startsWith(Chars(filename), Chars("documentation/"))
  \/ startsWith(Chars(filename), Chars("wiki/"))

\* calculateReviewTime, lines 112-113: the file has a "complex" extension
isComplexFile(filename) ==
  inList(toLowerCase(splitPop(Chars(filename), ".")),
         {"js", "jsx", "ts", "tsx", "py", "java", "cpp", "c", "go", "rs"})

\* The tail (\([a-zA-Z0-9-_]+\))?: .+ shared by the script's commit patterns,
\* matched at the start of rest. "." is any character but a line terminator.
IsScopeChar(c) ==
  LowerChar(c) \in Letters \/ c \in Digits \/ c \in {"-", "_"}

IsDot(c) == c \notin {"\n", "\r"}

MatchesColonText(rest) ==
  /\ Len(rest) >= 3
  /\ rest[1] = ":"
  /\ rest[2] = " "
  /\ IsDot(rest[3])

MatchesScopeTail(rest) ==
  \/ MatchesColonText(rest)
  \/ /\ Len(rest) >= 1
     /\ rest[1] = "("
     /\ \E k \in 3..Len(rest) :
          /\ rest[k] = ")"
          /\ \A i \in 2..(k - 1) : IsScopeChar(rest[i])
          /\ MatchesColonText(SubSeq(rest, k + 1, Len(rest)))

\* /^type(\([a-zA-Z0-9-_]+\))?: .+/.test(firstLine)
MatchesType(firstLine, type) ==
  /\ startsWith(firstLine, Chars(type))
  /\ MatchesScopeTail(SubSeq(firstLine, Len(Chars(type)) + 1, Len(firstLine)))

\* conventionalPattern that knows the five weighted types only
conventionalPatternWeightedOnly(firstLine) ==
  \E type \in {"feat", "fix", "docs", "refactor", "revert"} :
    MatchesType(firstLine, type)

\* conventionalPattern.test(firstLine), line 134
conventionalPattern(firstLine) ==
  \E type \in {"feat", "fix", "docs", "style", "refactor", "perf", "test",
               "build", "ci", "chore", "revert"} :
    MatchesType(firstLine, type)

\* message.split('\n')[0], lines 135 and 145
FirstLine(message) == splitFirst(Chars(message), "\n")

\* lines 135-137: the commit counts as unconventional
isUnconventional(commit) == ~conventionalPattern(FirstLine(commit.message))

\* line 140: the commit counts as large
isLargeCommit(commit) ==
  /\ commit.stats.present
  /\ commit.stats.additions + commit.stats.deletions > 300

\* lines 146-161: what the commit's type adds to the score, in thousandths
commitTypeScore(commit) ==
  LET firstLine == FirstLine(commit.message) IN
  IF MatchesType(firstLine, "feat") THEN 2000
  ELSE IF MatchesType(firstLine, "fix") THEN 1500
  ELSE IF MatchesType(firstLine, "refactor") THEN 2500
  ELSE IF MatchesType(firstLine, "revert") THEN 1000
  ELSE IF MatchesType(firstLine, "docs") THEN 500
  ELSE 0

\* The per-file and per-commit tests above, tabulated over the file names and
\* commits of the model: TLC evaluates a constant table once.
FileTable ==
  [n \in {f.filename : f \in FileChoices} |->
     [doc |-> isDocOrMetadataFile(n), complex |-> isComplexFile(n)]]

CommitTable ==
  [c \in CommitChoices |->
     [typeScore |-> commitTypeScore(c),
      unconventional |-> isUnconventional(c),
      large |-> isLargeCommit(c)]]

IsDoc(f) == FileTable[f.filename].doc

\* Sum of f[i] over a sequence
RECURSIVE SumSeq(_)
SumSeq(s) == IF s = <<>> THEN 0 ELSE Head(s) + SumSeq(Tail(s))

\* line 87-96: the code files, 0.5 minutes each, at most 15 minutes
fileCountScore(fs) ==
  Min(Cardinality({i \in 1..Len(fs) : ~IsDoc(fs[i])}) * 500, 15000)

\* lines 103-109 and 119: the changed lines, in fifths of a line
totalLinesChanged(fs) ==
  SumSeq([i \in 1..Len(fs) |->
            (IF IsDoc(fs[i]) THEN 1 ELSE 5)
              * (fs[i].additions + fs[i].deletions)])

\* line 120: 0.01 minutes per line, at most 10 minutes
lineScore(fs) == Min(totalLinesChanged(fs) * 2, 10000)

\* lines 110-116 and 123: 0.5 minutes per complex code file
complexFileScore(fs) ==
  Cardinality({i \in 1..Len(fs) :
                 ~IsDoc(fs[i]) /\ FileTable[fs[i].filename].complex}) * 500

\* lines 125-165: the commits
commitScore(cs) ==
  SumSeq([i \in 1..Len(cs) |-> CommitTable[cs[i]].typeScore])
    + Cardinality({i \in 1..Len(cs) : CommitTable[cs[i]].unconventional}) * 500
    + Cardinality({i \in 1..Len(cs) : CommitTable[cs[i]].large}) * 1000

\* lines 167-170: a poor description
descriptionScore(pr) ==
  IF ~pr.body.present \/ pr.body.length < 50 THEN 2000 ELSE 0

\* lines 70-170 past the fast track: the score, in thousandths of a minute
score(pr, cs, fs) ==
  fileCountScore(fs) + lineScore(fs) + complexFileScore(fs)
    + commitScore(cs) + descriptionScore(pr)

\* calculateReviewTime without the documentation fast track
calculateReviewTimeNoFastTrack(pr, cs, fs) == Max(1, Round(score(pr, cs, fs)))

\* line 73
isDocumentationOnly(fs) ==
  \A i \in 1..Len(fs) : IsDoc(fs[i])

calculateReviewTime(pr, cs, fs) ==
  IF isDocumentationOnly(fs) THEN 1 ELSE Max(1, Round(score(pr, cs, fs)))

timeOptions == <<1, 5, 10, 15, 20, 30>>

\* `${option} min review`
LabelOf(option) == ToString(option) \o " min review"

\* getReviewLabel with < where the script has <=
getReviewLabelStrict(minutes) ==
  IF \E i \in 1..Len(timeOptions) : minutes < timeOptions[i]
  THEN LabelOf(timeOptions[CHOOSE i \in 1..Len(timeOptions) :
         /\ minutes < timeOptions[i]
         /\ \A j \in 1..(i - 1) : ~(minutes < timeOptions[j])])
  ELSE LabelOf(timeOptions[Len(timeOptions)])

getReviewLabel(minutes) ==
  IF \E i \in 1..Len(timeOptions) : minutes <= timeOptions[i]
  THEN LabelOf(timeOptions[CHOOSE i \in 1..Len(timeOptions) :
         /\ minutes <= timeOptions[i]
         /\ \A j \in 1..(i - 1) : ~(minutes <= timeOptions[j])])
  ELSE LabelOf(timeOptions[Len(timeOptions)])

getLabelColor(minutes) ==
  IF minutes <= 1 THEN "2da44e"
  ELSE IF minutes <= 10 THEN "ffd700"
  ELSE "d73a4a"

-----------------------------------------------------------------------------
(* The bounded lists the classifier is given.                              *)

SeqsUpTo(S, n) == UNION {[1..k -> S] : k \in 0..n}

Repeat(x, n) == [i \in 1..n |-> x]

\* Any list of at most MaxCommits commits, or up to MaxRepeat copies of one.
CommitLists ==
  SeqsUpTo(CommitChoices, MaxCommits)
    \cup {Repeat(c, n) : c \in CommitChoices, n \in 2..MaxRepeat}

FileLists == SeqsUpTo(FileChoices, MaxFiles)

-----------------------------------------------------------------------------
(* The classifier on its own: any bounded snapshot, then lines 38-40.      *)

Runs == {1, 2}

NoSnapshot == [pullRequest |-> [body |-> NoBody], commits |-> <<>>, files |-> <<>>]

NoEstimate == [minutes |-> 0, label |-> "", color |-> ""]

NoRuns ==
  /\ snapshot = [r \in Runs |-> NoSnapshot]
  /\ reviewTime = [r \in Runs |-> 0]
  /\ reviewLabel = [r \in Runs |-> ""]
  /\ labelColor = [r \in Runs |-> ""]
  /\ labels = {}
  /\ labels0 = {}
  /\ labelDefs = <<>>
  /\ pc = [r \in Runs |-> "idle"]
  /\ inflight = [r \in Runs |-> {}]
  /\ toRemove = [r \in Runs |-> <<>>]
  /\ calls = [r \in Runs |-> <<>>]
  /\ errors = [r \in Runs |-> <<>>]
  /\ failed = [r \in Runs |-> FALSE]
  /\ after = [r \in Runs |-> {}]
  /\ created = [r \in Runs |-> {}]

runVars == <<snapshot, reviewTime, reviewLabel, labelColor, labels, labels0,
             labelDefs, pc, inflight, toRemove, calls, errors, failed, after,
             created>>

InitCalc ==
  /\ pullRequest \in {[body |-> b] : b \in BodyChoices}
  /\ commits \in CommitLists
  /\ files \in FileLists
  /\ estimate = NoEstimate
  /\ NoRuns

\* run, lines 38-40
Estimate ==
  /\ estimate = NoEstimate
  /\ LET minutes == calculateReviewTime(pullRequest, commits, files) IN
       estimate' = [minutes |-> minutes,
                    label |-> getReviewLabel(minutes),
                    color |-> getLabelColor(minutes)]
  /\ UNCHANGED <<pullRequest, commits, files>>
  /\ UNCHANGED runVars

NextCalc == Estimate

SpecCalc == InitCalc /\ [][NextCalc]_vars

-----------------------------------------------------------------------------
(* The collaborator: the pull request, its labels, the label definitions.  *)

\* What the pull request may hold when a run reads it: one snapshot for
\* each of the six labels.
RunSnapshots ==
  { [pullRequest |-> [body |-> NoBody],
     commits |-> <<>>,
     files |-> <<File("docs/a.md", 10, 0), File("README", 3, 1)>>],
    [pullRequest |-> [body |-> Body(0)],
     commits |-> <<Commit("update stuff", NoStats)>>,
     files |-> <<File("util.py", 10, 0)>>],
    [pullRequest |-> [body |-> Body(50)],
     commits |-> <<Commit("feat(core): add x", Stats(400, 0))>>,
     files |-> <<File("src/app.ts", 400, 0)>>],
    [pullRequest |-> [body |-> NoBody],
     commits |-> <<Commit("fix: y", NoStats)>>,
     files |-> <<File("data.csv", 1000, 200)>>],
    [pullRequest |-> [body |-> NoBody],
     commits |-> <<Commit("refactor: z", Stats(200, 101))>>,
     files |-> <<File("data.csv", 1000, 200), File("src/app.ts", 400, 0)>>],
    [pullRequest |-> [body |-> NoBody],
     commits |-> Repeat(Commit("refactor: z", Stats(200, 101)), 5),
     files |-> <<File("data.csv", 1000, 200)>>] }

\* The label names a pull request may carry before the first run.
LabelChoices ==
  {"5 min review", "30 min review", "45 min review", "007 min review",
   "bug", "x5 min review", "5 min review\n", "5 Min Review"}

InitialLabelSets ==
  {S \in SUBSET LabelChoices : Cardinality(S) <= MaxInitLabels}

\* The color of a label definition nobody chose a color for.
DefaultColor == "ededed"

\* /^\d+ min review$/.test(name) with \d in place of \d+
IsTimeLabelOneDigit(name) ==
  LET cs == Chars(name) IN
  /\ Len(cs) >= 1
  /\ cs[1] \in Digits
  /\ SubSeq(cs, 2, Len(cs)) = Chars(" min review")

\* /^\d+ min review$/.test(name), line 295
IsTimeLabel(name) ==
  LET cs == Chars(name)
      n == IF \E i \in 1..Len(cs) : cs[i] \notin Digits
           THEN (CHOOSE i \in 1..Len(cs) :
                   cs[i] \notin Digits /\ \A j \in 1..(i - 1) : cs[j] \in Digits) - 1
           ELSE Len(cs)
  IN n >= 1 /\ SubSeq(cs, n + 1, Len(cs)) = Chars(" min review")

\* timeLabels that keeps the first match only
timeLabelsFirstOnly(currentLabels) ==
  IF SelectSeq(currentLabels, IsTimeLabel) = <<>> THEN <<>>
  ELSE <<Head(SelectSeq(currentLabels, IsTimeLabel))>>

\* lines 293-295: currentLabels.map(label => label.name).filter(...)
timeLabels(currentLabels) == SelectSeq(currentLabels, IsTimeLabel)

\* Every removeLabel call issued at once, as Promise.all over timeLabels would
NextRemovalsAllAtOnce(pending) == pending

\* lines 297-304: the labels whose removeLabel call the loop issues before it
\* awaits, given the labels it has not handled yet (pending is not empty)
NextRemovals(pending) == <<Head(pending)>>

\* issues.setLabels in place of issues.addLabels
SetLabels(current, names) == names

\* issues.addLabels, lines 52-57: what the pull request carries afterwards
AddLabels(current, names) == current \cup names

\* Every order in which the collaborator may list a set of label names.
Orderings(S) ==
  {s \in [1..Cardinality(S) -> S] : \A i, j \in 1..Cardinality(S) : s[i] = s[j] => i = j}

Range(s) == {s[i] : i \in 1..Len(s)}

Call(op, name) == [op |-> op, name |-> name]

\* The answers of the collaborator the script tells apart: success, "not
\* found", and any other failure.
Statuses == {200, 404, 500}

-----------------------------------------------------------------------------
(* run(): one action per answer the script awaits.                         *)

Init ==
  /\ pullRequest = [body |-> NoBody]
  /\ commits = <<>>
  /\ files = <<>>
  /\ estimate = NoEstimate
  /\ labels \in InitialLabelSets
  /\ labels0 = labels
  /\ \E predefined \in {{}, {LabelOf(timeOptions[i]) : i \in 1..Len(timeOptions)}} :
       labelDefs = [n \in labels \cup predefined |-> DefaultColor]
  /\ snapshot = [r \in Runs |-> NoSnapshot]
  /\ reviewTime = [r \in Runs |-> 0]
  /\ reviewLabel = [r \in Runs |-> ""]
  /\ labelColor = [r \in Runs |-> ""]
  /\ pc = [r \in Runs |-> "idle"]
  /\ inflight = [r \in Runs |-> {}]
  /\ toRemove = [r \in Runs |-> <<>>]
  /\ calls = [r \in Runs |-> <<>>]
  /\ errors = [r \in Runs |-> <<>>]
  /\ failed = [r \in Runs |-> FALSE]
  /\ after = [r \in Runs |-> {}]
  /\ created = [r \in Runs |-> {}]

classifierVars == <<pullRequest, commits, files, estimate>>

\* The answer to call has arrived; the script runs on, issues newCalls and
\* awaits at pc value at.
Proceed(r, call, newCalls, at) ==
  /\ calls' = [calls EXCEPT ![r] = @ \o newCalls]
  /\ inflight' = [inflight EXCEPT ![r] = (@ \ {call}) \cup Range(newCalls)]
  /\ pc' = [pc EXCEPT ![r] = at]

\* lines 60-63: an awaited call threw; the run reports the failure and ends.
Fail(r, call, status) ==
  /\ errors' = [errors EXCEPT ![r] =
                  Append(@, [op |-> call.op, status |-> status, at |-> Len(calls[r])])]
  /\ failed' = [failed EXCEPT ![r] = TRUE]
  /\ pc' = [pc EXCEPT ![r] = "done"]
  /\ inflight' = [inflight EXCEPT ![r] = {}]
  /\ after' = [after EXCEPT ![r] = labels]
  /\ UNCHANGED <<calls, labels, labelDefs, snapshot, reviewTime, reviewLabel,
                 labelColor, toRemove, created>>

\* run is called: lines 7-17, up to the await of pulls.get
Start(r) ==
  /\ pc[r] = "idle"
  /\ calls' = [calls EXCEPT ![r] = <<Call("pulls.get", "")>>]
  /\ inflight' = [inflight EXCEPT ![r] = {Call("pulls.get", "")}]
  /\ pc' = [pc EXCEPT ![r] = "pulls.get"]
  /\ UNCHANGED <<labels, labels0, labelDefs, snapshot, reviewTime, reviewLabel,
                 labelColor, toRemove, errors, failed, after, created>>
  /\ UNCHANGED classifierVars

\* lines 17-24: pulls.get answers. snapshot[r] is the pull request as the
\* three reads of the run see it, fixed when the first of them answers.
RetPullsGet(r, status) ==
  /\ pc[r] = "pulls.get"
  /\ IF status = 200
     THEN /\ \E s \in RunSnapshots : snapshot' = [snapshot EXCEPT ![r] = s]
          /\ Proceed(r, Call("pulls.get", ""), <<Call("listCommits", "")>>,
                     "listCommits")
          /\ UNCHANGED <<labels, labelDefs, reviewTime, reviewLabel, labelColor,
                         toRemove, errors, failed, after, created>>
     ELSE Fail(r, Call("pulls.get", ""), status)
  /\ UNCHANGED labels0
  /\ UNCHANGED classifierVars

\* lines 24-31: pulls.listCommits answers
RetListCommits(r, status) ==
  /\ pc[r] = "listCommits"
  /\ IF status = 200
     THEN /\ Proceed(r, Call("listCommits", ""), <<Call("listFiles", "")>>,
                     "listFiles")
          /\ UNCHANGED <<labels, labelDefs, snapshot, reviewTime, reviewLabel,
                         labelColor, toRemove, errors, failed, after, created>>
     ELSE Fail(r, Call("listCommits", ""), status)
  /\ UNCHANGED labels0
  /\ UNCHANGED classifierVars

\* lines 31-46 and 287: pulls.listFiles answers; the run computes the time,
\* the label and the color, and removeExistingTimeLabels lists the labels
RetListFiles(r, status) ==
  /\ pc[r] = "listFiles"
  /\ IF status = 200
     THEN /\ LET minutes == calculateReviewTime(snapshot[r].pullRequest,
                                                snapshot[r].commits,
                                                snapshot[r].files)
             IN /\ reviewTime' = [reviewTime EXCEPT ![r] = minutes]
                /\ reviewLabel' = [reviewLabel EXCEPT ![r] = getReviewLabel(minutes)]
                /\ labelColor' = [labelColor EXCEPT ![r] = getLabelColor(minutes)]
          /\ Proceed(r, Call("listFiles", ""), <<Call("listLabelsOnIssue", "")>>,
                     "listLabelsOnIssue")
          /\ UNCHANGED <<labels, labelDefs, snapshot, toRemove, errors, failed,
                         after, created>>
     ELSE Fail(r, Call("listFiles", ""), status)
  /\ UNCHANGED labels0
  /\ UNCHANGED classifierVars

\* The removeLabel calls for the labels of names.
RemovalCalls(names) == [i \in 1..Len(names) |-> Call("removeLabel", names[i])]

\* removeExistingTimeLabels has nothing left to remove and returns; run calls
\* ensureLabelExists, which issues getLabel (lines 49 and 253)
CallGetLabel(r, call) ==
  Proceed(r, call, <<Call("getLabel", reviewLabel[r])>>, "getLabel")

\* removeExistingTimeLabels, lines 287-298: listLabelsOnIssue answers with
\* the labels of the pull request in some order
RetListLabels(r, status) ==
  /\ pc[r] = "listLabelsOnIssue"
  /\ IF status = 200
     THEN /\ \E currentLabels \in Orderings(labels) :
               LET pending == timeLabels(currentLabels) IN
               IF pending = <<>>
               THEN /\ CallGetLabel(r, Call("listLabelsOnIssue", ""))
                    /\ UNCHANGED toRemove
               ELSE /\ Proceed(r, Call("listLabelsOnIssue", ""),
                               RemovalCalls(NextRemovals(pending)), "removeLabel")
                    /\ toRemove' = [toRemove EXCEPT ![r] =
                         SubSeq(pending, Len(NextRemovals(pending)) + 1, Len(pending))]
          /\ UNCHANGED <<labels, labelDefs, snapshot, reviewTime, reviewLabel,
                         labelColor, errors, failed, after, created>>
     ELSE Fail(r, Call("listLabelsOnIssue", ""), status)
  /\ UNCHANGED labels0
  /\ UNCHANGED classifierVars

\* removeExistingTimeLabels, lines 297-304: a removeLabel call answers; it
\* succeeds only for a label the pull request carries
RetRemoveLabel(r, status) ==
  /\ pc[r] = "removeLabel"
  /\ \E call \in inflight[r] :
       /\ call.op = "removeLabel"
       /\ IF status = 200
          THEN /\ call.name \in labels
               /\ labels' = labels \ {call.name}
               /\ IF inflight[r] # {call}
                  THEN /\ Proceed(r, call, <<>>, "removeLabel")
                       /\ UNCHANGED toRemove
                  ELSE IF toRemove[r] = <<>>
                  THEN /\ CallGetLabel(r, call)
                       /\ UNCHANGED toRemove
                  ELSE /\ Proceed(r, call,
                                  RemovalCalls(NextRemovals(toRemove[r])), "removeLabel")
                       /\ toRemove' = [toRemove EXCEPT ![r] =
                            SubSeq(@, Len(NextRemovals(@)) + 1, Len(@))]
               /\ UNCHANGED <<labelDefs, snapshot, reviewTime, reviewLabel,
                              labelColor, errors, failed, after, created>>
          ELSE Fail(r, call, status)
  /\ UNCHANGED labels0
  /\ UNCHANGED classifierVars

\* ensureLabelExists, lines 253-260 and 267-279: getLabel answers; it
\* succeeds only for a label that has a definition
RetGetLabel(r, status) ==
  /\ pc[r] = "getLabel"
  /\ LET call == Call("getLabel", reviewLabel[r]) IN
     CASE status = 200 ->
            /\ reviewLabel[r] \in DOMAIN labelDefs
            /\ Proceed(r, call, <<Call("updateLabel", reviewLabel[r])>>, "updateLabel")
            /\ UNCHANGED <<labels, labelDefs, snapshot, reviewTime, reviewLabel,
                           labelColor, toRemove, errors, failed, after, created>>
       [] status = 404 ->
            /\ Proceed(r, call, <<Call("createLabel", reviewLabel[r])>>, "createLabel")
            /\ errors' = [errors EXCEPT ![r] =
                 Append(@, [op |-> call.op, status |-> status, at |-> Len(calls[r])])]
            /\ UNCHANGED <<labels, labelDefs, snapshot, reviewTime, reviewLabel,
                           labelColor, toRemove, failed, after, created>>
       [] OTHER -> Fail(r, call, status)
  /\ UNCHANGED labels0
  /\ UNCHANGED classifierVars

\* ensureLabelExists, lines 260-279: updateLabel answers inside the same try
\* block as getLabel, so the catch of line 267 takes its failures too
RetUpdateLabel(r, status) ==
  /\ pc[r] = "updateLabel"
  /\ LET call == Call("updateLabel", reviewLabel[r]) IN
     CASE status = 200 ->
            /\ reviewLabel[r] \in DOMAIN labelDefs
            /\ labelDefs' = [labelDefs EXCEPT ![reviewLabel[r]] = labelColor[r]]
            /\ Proceed(r, call, <<Call("addLabels", reviewLabel[r])>>, "addLabels")
            /\ UNCHANGED <<labels, snapshot, reviewTime, reviewLabel, labelColor,
                           toRemove, errors, failed, after, created>>
       [] status = 404 ->
            /\ Proceed(r, call, <<Call("createLabel", reviewLabel[r])>>, "createLabel")
            /\ errors' = [errors EXCEPT ![r] =
                 Append(@, [op |-> call.op, status |-> status, at |-> Len(calls[r])])]
            /\ UNCHANGED <<labels, labelDefs, snapshot, reviewTime, reviewLabel,
                           labelColor, toRemove, failed, after, created>>
       [] OTHER -> Fail(r, call, status)
  /\ UNCHANGED labels0
  /\ UNCHANGED classifierVars

\* ensureLabelExists, lines 270-276: createLabel answers; it succeeds only
\* for a label that has no definition, and its failure leaves the catch block
RetCreateLabel(r, status) ==
  /\ pc[r] = "createLabel"
  /\ LET call == Call("createLabel", reviewLabel[r]) IN
     IF status = 200
     THEN /\ reviewLabel[r] \notin DOMAIN labelDefs
          /\ labelDefs' = [n \in DOMAIN labelDefs \cup {reviewLabel[r]} |->
                             IF n = reviewLabel[r] THEN labelColor[r] ELSE labelDefs[n]]
          /\ created' = [created EXCEPT ![r] = @ \cup {reviewLabel[r]}]
          /\ Proceed(r, call, <<Call("addLabels", reviewLabel[r])>>, "addLabels")
          /\ UNCHANGED <<labels, snapshot, reviewTime, reviewLabel, labelColor,
                         toRemove, errors, failed, after>>
     ELSE Fail(r, call, status)
  /\ UNCHANGED labels0
  /\ UNCHANGED classifierVars

\* run, lines 52-59: addLabels answers; a label added without a definition
\* is given one by the collaborator
RetAddLabels(r, status) ==
  /\ pc[r] = "addLabels"
  /\ LET call == Call("addLabels", reviewLabel[r]) IN
     IF status = 200
     THEN /\ labels' = AddLabels(labels, {reviewLabel[r]})
          /\ labelDefs' = [n \in DOMAIN labelDefs \cup {reviewLabel[r]} |->
                             IF n \in DOMAIN labelDefs THEN labelDefs[n]
                             ELSE DefaultColor]
          /\ Proceed(r, call, <<>>, "done")
          /\ after' = [after EXCEPT ![r] = labels']
          /\ UNCHANGED <<snapshot, reviewTime, reviewLabel, labelColor, toRemove,
                         errors, failed, created>>
     ELSE Fail(r, call, status)
  /\ UNCHANGED labels0
  /\ UNCHANGED classifierVars

\* One step of run r: the call it awaits answers.
Answer(r) ==
  \E status \in Statuses :
    \/ RetPullsGet(r, status)
    \/ RetListCommits(r, status)
    \/ RetListFiles(r, status)
    \/ RetListLabels(r, status)
    \/ RetRemoveLabel(r, status)
    \/ RetGetLabel(r, status)
    \/ RetUpdateLabel(r, status)
    \/ RetCreateLabel(r, status)
    \/ RetAddLabels(r, status)

\* The workflow runs of one pull request one after the other. A run that
\* follows a failed run is not followed up: it starts from labels and
\* definitions that some initial state holds too.
StartInTurn(r) ==
  /\ \A q \in Runs : q < r => pc[q] = "done" /\ ~failed[q]
  /\ Start(r)

Next == \E r \in Runs : StartInTurn(r) \/ Answer(r)

Spec == Init /\ [][Next]_vars

\* The workflow has no concurrency group: a second event of the pull request
\* (opened, synchronize) starts a run while the first is still under way.
StartOverlapping(r) ==
  /\ \A q \in Runs : q < r => pc[q] # "idle"
  /\ Start(r)

NextConc == \E r \in Runs : StartOverlapping(r) \/ Answer(r)

InitConc == Init /\ Cardinality(labels) <= MaxConcLabels

SpecConc == InitConc /\ [][NextConc]_vars

-----------------------------------------------------------------------------
(* Properties of the classifier, checked under SpecCalc.                   *)

Estimated == estimate # NoEstimate

BucketLabels == {LabelOf(timeOptions[i]) : i \in 1..Len(timeOptions)}

Buckets == {timeOptions[i] : i \in 1..Len(timeOptions)}

\* The bucket a label names.
BucketOf(label) == CHOOSE b \in Buckets : LabelOf(b) = label

\* The smallest bucket that is at least minutes (there is one up to 30).
CeilingBucket(minutes) ==
  CHOOSE b \in Buckets :
    b >= minutes /\ \A c \in Buckets : c >= minutes => b <= c

\* C3 as stated: for every snapshot the minutes are at least 1 and the bucket
\* of the label is at least the minutes and is the smallest such bucket.
C3_BucketAlwaysCeiling ==
  Estimated =>
    /\ estimate.minutes >= 1
    /\ estimate.label \in BucketLabels
    /\ BucketOf(estimate.label) >= estimate.minutes
    /\ \A c \in Buckets :
         c >= estimate.minutes => BucketOf(estimate.label) <= c

\* C3 as amended: the minutes are at least 1; up to 30 minutes the bucket is
\* the smallest bucket that is at least the minutes; above 30 minutes the
\* bucket is 30, the largest, and so below the minutes.
C3_BucketCeilingUpTo30 ==
  Estimated =>
    /\ estimate.minutes >= 1
    /\ estimate.label \in BucketLabels
    /\ estimate.minutes <= 30 =>
         BucketOf(estimate.label) = CeilingBucket(estimate.minutes)
    /\ estimate.minutes > 30 => BucketOf(estimate.label) = 30

\* A snapshot scored above 30 minutes has been labelled.
C3_Witness ==
  /\ Estimated
  /\ estimate.minutes > 30
  /\ estimate.label = "30 min review"

\* C4: when every changed file is a doc/metadata file, the minutes are 1 and
\* the label is "1 min review", whatever the commits and the description.
C4_DocsOnlyIsOneMinute ==
  (Estimated /\ \A i \in 1..Len(files) : IsDoc(files[i])) =>
    /\ estimate.minutes = 1
    /\ estimate.label = "1 min review"

\* A docs-only pull request with five large refactor commits and no
\* description has been labelled.
C4_Witness ==
  /\ Estimated
  /\ Len(files) = 2
  /\ \A i \in 1..Len(files) : IsDoc(files[i])
  /\ files[1].additions > 0
  /\ Len(commits) = 5
  /\ commits[1].message = "refactor: z"
  /\ ~pullRequest.body.present

\* The first line of a commit message read as type(scope)?: description.
\* TypeWord is its leading run of lower-case letters; the line has the
\* conventional shape when the word is not empty and is followed by an
\* optional parenthesised scope, a colon, a space and a description.
TypeWordLen(line) ==
  IF \E i \in 1..Len(line) : line[i] \notin Letters
  THEN (CHOOSE i \in 1..Len(line) :
          line[i] \notin Letters /\ \A j \in 1..(i - 1) : line[j] \in Letters) - 1
  ELSE Len(line)

TypeWord(line) == SubSeq(line, 1, TypeWordLen(line))

HasConventionalShape(line) ==
  LET n == TypeWordLen(line)
      rest == SubSeq(line, n + 1, Len(line))
  IN /\ n >= 1
     /\ \E k \in 1..(Len(rest) - 2) :
          /\ rest[k] = ":"
          /\ rest[k + 1] = " "
          /\ \/ k = 1
             \/ /\ k >= 4
                /\ rest[1] = "("
                /\ rest[k - 1] = ")"
                /\ \A i \in 2..(k - 2) :
                     rest[i] \in Letters \cup Digits \cup {"-", "_"}
                       \/ LowerChar(rest[i]) \in Letters

IsType(line, types) ==
  HasConventionalShape(line) /\ \E t \in types : TypeWord(line) = Chars(t)

\* The weight, in thousandths of a minute, the README gives a commit type.
TypeWeight(line) ==
  IF IsType(line, {"feat"}) THEN 2000
  ELSE IF IsType(line, {"fix"}) THEN 1500
  ELSE IF IsType(line, {"refactor"}) THEN 2500
  ELSE IF IsType(line, {"revert"}) THEN 1000
  ELSE IF IsType(line, {"docs"}) THEN 500
  ELSE 0

WeightedTypes == {"feat", "fix", "refactor", "revert", "docs"}

UnweightedTypes == {"style", "perf", "test", "build", "ci", "chore"}

\* Whatever a commit adds for its size, which is apart from its type.
SizeBonus(commit) ==
  IF commit.stats.present /\ commit.stats.additions + commit.stats.deletions > 300
  THEN 1000 ELSE 0

RemoveAt(s, i) == SubSeq(s, 1, i - 1) \o SubSeq(s, i + 1, Len(s))

\* What the i-th commit adds to the score of the snapshot, its size apart.
Contribution(i) ==
  score(pullRequest, commits, files)
    - score(pullRequest, RemoveAt(commits, i), files)
    - SizeBonus(commits[i])

NotDocsOnly == \E i \in 1..Len(files) : ~IsDoc(files[i])

ClaimTable ==
  [c \in CommitChoices |->
     LET line == splitFirst(Chars(c.message), "\n") IN
     [weighted |-> IsType(line, WeightedTypes),
      unweighted |-> IsType(line, UnweightedTypes),
      weight |-> TypeWeight(line)]]

\* C8 as stated: in a pull request that is not docs-only a feat, fix,
\* refactor, revert or docs commit adds its weight, and every other commit
\* adds 0.5 as unconventional.
C8_OtherCommitsAreUnconventional ==
  (Estimated /\ NotDocsOnly) =>
    \A i \in 1..Len(commits) :
      Contribution(i) =
        IF ClaimTable[commits[i]].weighted
        THEN ClaimTable[commits[i]].weight ELSE 500

\* C8 as amended: a feat, fix, refactor, revert or docs commit adds its
\* weight; a commit of the conventional shape whose type is style, perf,
\* test, build, ci or chore adds nothing; every other commit (another type,
\* or a first line not of the conventional shape) adds 0.5 as unconventional.
C8_CommitContribution ==
  (Estimated /\ NotDocsOnly) =>
    \A i \in 1..Len(commits) :
      Contribution(i) =
        IF ClaimTable[commits[i]].weighted THEN ClaimTable[commits[i]].weight
        ELSE IF ClaimTable[commits[i]].unweighted THEN 0
        ELSE 500

\* A code pull request with chore commits has been scored.
C8_Witness ==
  /\ Estimated
  /\ NotDocsOnly
  /\ Len(commits) >= 2
  /\ commits[1].message = "chore: x"

-----------------------------------------------------------------------------
(* Properties of the label synchronisation.                                *)

\* A label name of the form <digits> min review.
MatchesTimePattern(name) ==
  LET cs == Chars(name) IN
  \E k \in 1..Len(cs) :
    /\ \A i \in 1..k : cs[i] \in Digits
    /\ SubSeq(cs, k + 1, Len(cs)) = Chars(" min review")

TimeLabelsOf(S) == {n \in S : MatchesTimePattern(n)}

Succeeded(r) == pc[r] = "done" /\ ~failed[r]

Issued(r, op) == \E i \in 1..Len(calls[r]) : calls[r][i].op = op

\* C1: a run whose calls all succeed ends with exactly one time label on the
\* pull request, the target label, which is one of the six bucket labels.
C1_ExactlyTheTargetLabel ==
  \A r \in Runs :
    Succeeded(r) =>
      /\ TimeLabelsOf(after[r]) = {reviewLabel[r]}
      /\ reviewLabel[r] \in {"1 min review", "5 min review", "10 min review",
                             "15 min review", "20 min review", "30 min review"}

\* A run has succeeded on a pull request that carried several time labels,
\* none of them the target.
C1_Witness ==
  /\ Succeeded(1)
  /\ Cardinality(TimeLabelsOf(labels0)) >= 2
  /\ reviewLabel[1] \notin labels0

\* C2: two successful runs in succession with the same target label leave
\* the label set the first of them left.
C2_SecondRunChangesNothing ==
  (Succeeded(1) /\ Succeeded(2) /\ reviewLabel[1] = reviewLabel[2]) =>
    after[2] = after[1]

\* Two runs with the same target have succeeded in succession on a pull
\* request that carried other time labels.
C2_Witness ==
  /\ Succeeded(1)
  /\ Succeeded(2)
  /\ reviewLabel[1] = reviewLabel[2]
  /\ TimeLabelsOf(labels0) \ {reviewLabel[1]} # {}
  /\ after[1] # labels0

\* C5 as stated: after a failed call, other than getLabel answering "not
\* found", the run issues no further call and ends failed; when the failed
\* call is a label-definition call or addLabels, the pull request is left
\* without a time label.
C5_FailureEndsTheRun ==
  \A r \in Runs : \A i \in 1..Len(errors[r]) :
    LET e == errors[r][i] IN
    ~(e.op = "getLabel" /\ e.status = 404) =>
      /\ Len(calls[r]) = e.at
      /\ pc[r] = "done"
      /\ failed[r]
      /\ e.op \in {"getLabel", "updateLabel", "createLabel", "addLabels"} =>
           TimeLabelsOf(after[r]) = {}

\* The position of a call in the order the run issues its calls.
Rank(op) ==
  CASE op = "pulls.get" -> 1
    [] op = "listCommits" -> 2
    [] op = "listFiles" -> 3
    [] op = "listLabelsOnIssue" -> 4
    [] op = "removeLabel" -> 5
    [] op = "getLabel" -> 6
    [] op = "updateLabel" -> 7
    [] op = "createLabel" -> 8
    [] op = "addLabels" -> 9

\* The labels on the pull request when run r starts, the runs being in turn.
LabelsAtStart(r) == IF r = 1 THEN labels0 ELSE after[r - 1]

RemovedBy(r) ==
  {calls[r][i].name : i \in {j \in 1..Len(calls[r]) : calls[r][j].op = "removeLabel"}}

\* C6: a run has at most one call in flight; it issues its calls in the
\* order list labels, one removeLabel per stale time label, the
\* label-definition calls, addLabels; and it issues nothing after the
\* removals before every removeLabel has been answered.
C6_OneCallAtATimeInOrder ==
  \A r \in Runs :
    /\ Cardinality(inflight[r]) <= 1
    /\ \A i, j \in 1..Len(calls[r]) :
         i < j =>
           \/ Rank(calls[r][i].op) < Rank(calls[r][j].op)
           \/ /\ calls[r][i].op = "removeLabel"
              /\ calls[r][j].op = "removeLabel"
              /\ calls[r][i].name # calls[r][j].name
    /\ (Issued(r, "getLabel") \/ Issued(r, "addLabels")) =>
         /\ toRemove[r] = <<>>
         /\ \A c \in inflight[r] : c.op # "removeLabel"
         /\ RemovedBy(r) = TimeLabelsOf(LabelsAtStart(r))
         /\ TimeLabelsOf(labels) \subseteq {reviewLabel[q] : q \in Runs}

\* A run has removed several time labels and then added its label.
C6_Witness ==
  /\ Succeeded(1)
  /\ Cardinality(RemovedBy(1)) >= 2
  /\ Issued(1, "addLabels")

\* C7 as stated: updateLabel is issued exactly when getLabel found the
\* definition, createLabel exactly when getLabel answered "not found", and
\* every other failure of the three calls ends the run with no further call
\* and no definition created.
C7_CreateOnlyWhenGetLabelNotFound ==
  \A r \in Runs :
    LET GetLabelFailed == \E i \in 1..Len(errors[r]) : errors[r][i].op = "getLabel"
        GetLabelNotFound ==
          \E i \in 1..Len(errors[r]) :
            errors[r][i].op = "getLabel" /\ errors[r][i].status = 404
        GetLabelFound ==
          Issued(r, "getLabel") /\ pc[r] # "getLabel" /\ ~GetLabelFailed
    IN /\ Issued(r, "updateLabel") <=> GetLabelFound
       /\ Issued(r, "createLabel") <=> GetLabelNotFound
       /\ \A i \in 1..Len(errors[r]) :
            LET e == errors[r][i] IN
            (/\ e.op \in {"getLabel", "updateLabel", "createLabel"}
             /\ ~(e.op = "getLabel" /\ e.status = 404)) =>
              /\ failed[r]
              /\ Len(calls[r]) = e.at
              /\ created[r] = {}

\* C9: whatever a run does, the labels that are not time labels stay as they
\* were, and no label is added but the target of a run.
C9_OtherLabelsUntouched ==
  /\ labels \ TimeLabelsOf(labels) = labels0 \ TimeLabelsOf(labels0)
  /\ labels \ labels0 \subseteq {reviewLabel[r] : r \in Runs}

\* A run has failed after it removed a time label from a pull request that
\* carries look-alike labels.
C9_Witness ==
  /\ pc[1] = "done"
  /\ failed[1]
  /\ labels # labels0
  /\ {"x5 min review", "5 min review\n"} \subseteq labels0

\* C10 as stated: once two runs of one pull request have both succeeded,
\* the pull request carries at most one time label.
C10_AtMostOneTimeLabel ==
  (\A r \in Runs : Succeeded(r)) => Cardinality(TimeLabelsOf(labels)) <= 1

=============================================================================
